---- MODULE Spec2Model ----
(***************************************************************************)
(* A model of projectBalance.py: the Transaction class, projectDiffs and   *)
(* the forward / backward passes of createBalanceGraph.                    *)
(*                                                                         *)
(* Python values are records carrying their type, so that isinstance and   *)
(* "== None" are decided as the interpreter decides them.  A datetime is   *)
(* a count of clock ticks since midnight of day 0; a str is the sequence   *)
(* of its characters.                                                      *)
(***************************************************************************)
EXTENDS Integers, Sequences, FiniteSets, TLC

\* ------------------------------------------------------------- bounds
\* Calendar days 0..MaxDay are modelled.
MaxDay == 4
\* Clock ticks in a day: the time-of-day of a datetime is 0..TicksPerDay-1.
TicksPerDay == 3
\* Clock ticks in a second: a tick that is no multiple of it has microseconds.
TicksPerSec == 2
\* The largest interval= of a recurrence rule.
MaxInterval == 2
\* The longest transaction list handed to projectDiffs.
MaxTx == 2
\* The longest diffs list handed to createBalanceGraph.
MaxLen == 3
\* The significant bits of a float.  Python's have 53; the model's floats are
\* narrower, and round the same way, so that every product of two mantissas
\* fits a 32-bit integer.
MantissaBits == 10

\* ------------------------------------------------------ Python values
None == [type |-> "NoneType"]
PyInt(n) == [type |-> "int", val |-> n]
Str(s) == [type |-> "str", val |-> s]
Datetime(ts) == [type |-> "datetime", ts |-> ts]

\* datetime.date(): the calendar day, the time-of-day dropped.
date(dt) == dt.ts \div TicksPerDay

\* datetime.replace(microsecond=0)
replaceMicrosecond0(dt) ==
    LET tod == dt.ts % TicksPerDay
    IN  Datetime(dt.ts - (tod % TicksPerSec))

\* datetime + timedelta(days=n)
plusDays(dt, n) == Datetime(dt.ts + n * TicksPerDay)

\* Midnight of day d, and day d at time-of-day t.
Midnight(d) == Datetime(d * TicksPerDay)
At(d, t) == Datetime(d * TicksPerDay + t)

Days == 0 .. MaxDay
Datetimes == { At(d, t) : d \in Days, t \in 0 .. (TicksPerDay - 1) }

\* --------------------------------------------- dateutil.rrule (DAILY)
\* rrule(DAILY, dtstart=, until=, interval=): the constructor drops the
\* microseconds of dtstart and keeps until as given.
rrule(dtstart, until, interval) ==
    [type |-> "rrule", dtstart |-> replaceMicrosecond0(dtstart),
     until |-> until, interval |-> interval]

\* The iterator of a rule: its first candidate, whether a candidate is
\* yielded (the iteration ends at the first one later than until), the next.
rruleFirst(r) == r.dtstart
rruleYields(r, cur) == cur.ts <= r.until.ts
rruleAdvance(r, cur) == plusDays(cur, r.interval)

\* list(r): every datetime the rule yields, in order.
RECURSIVE rruleFrom(_, _)
rruleFrom(r, cur) ==
    IF rruleYields(r, cur)
    THEN <<cur>> \o rruleFrom(r, rruleAdvance(r, cur))
    ELSE <<>>
rruleList(r) == rruleFrom(r, rruleFirst(r))

Rrules ==
    { rrule(s, u, k) : s \in Datetimes, u \in Datetimes, k \in 1 .. MaxInterval }

\* ------------------------------------------------------------ helpers
isinstance(v, t) == v.type = t

\* Python truth value of the values the program tests.
Truthy(v) ==
    CASE v.type = "NoneType" -> FALSE
      [] v.type = "str" -> v.val # <<>>
      [] OTHER -> TRUE

\* str(n) of an int: its decimal digits, "-" first when negative.
Digit(d) ==
    CASE d = 0 -> "0" [] d = 1 -> "1" [] d = 2 -> "2" [] d = 3 -> "3"
      [] d = 4 -> "4" [] d = 5 -> "5" [] d = 6 -> "6" [] d = 7 -> "7"
      [] d = 8 -> "8" [] d = 9 -> "9"
RECURSIVE Digits(_)
Digits(n) == IF n < 10 THEN <<Digit(n)>> ELSE Digits(n \div 10) \o <<Digit(n % 10)>>
str(n) == IF n < 0 THEN <<"-">> \o Digits(-n) ELSE Digits(n)

\* sep.join(parts)
RECURSIVE join(_, _)
join(sep, parts) ==
    IF parts = <<>> THEN <<>>
    ELSE IF Len(parts) = 1 THEN Head(parts)
    ELSE Head(parts) \o sep \o join(sep, Tail(parts))

\* sum(xs)
RECURSIVE sum(_)
sum(xs) == IF xs = <<>> THEN 0 ELSE Head(xs) + sum(Tail(xs))

\* [f(x) for x in xs if keep(x)]
RECURSIVE SelectNonEmpty(_)
SelectNonEmpty(xs) ==
    IF xs = <<>> THEN <<>>
    ELSE (IF Head(xs) # <<>> THEN <<Head(xs)>> ELSE <<>>) \o SelectNonEmpty(Tail(xs))

\* ------------------------------------------------------- Transaction
\* A faulty variant of TransactionInitRaises: the arguments are tested for truth, so
\* an amount of 0 counts as missing.
TransactionInitRaises_falsy(when, amount, name) ==
    IF when = None \/ amount = None \/ (amount.type = "int" /\ amount.val = 0)
    THEN "ValueError: missing"
    ELSE IF ~(isinstance(when, "datetime") \/ isinstance(when, "rrule"))
    THEN "ValueError: type"
    ELSE "none"

\* Transaction.__init__: the exception it raises, or "none".
TransactionInitRaises(when, amount, name) ==
    IF when = None \/ amount = None
    THEN "ValueError: missing"
    ELSE IF ~(isinstance(when, "datetime") \/ isinstance(when, "rrule"))
    THEN "ValueError: type"
    ELSE "none"

\* The object __init__ leaves behind when it does not raise.
Transaction(when, amount, name) ==
    [when |-> when, amount |-> amount, name |-> name]

\* dayTime.date() in map(lambda dt: dt.date(), self.when): the scan of the
\* rule's iterator, ended at the first match.
RECURSIVE dateInRrule(_, _, _)
dateInRrule(d, r, cur) ==
    IF ~rruleYields(r, cur) THEN FALSE
    ELSE IF date(cur) = d THEN TRUE
    ELSE dateInRrule(d, r, rruleAdvance(r, cur))

\* A faulty variant of doesTransactForDay: datetimes are compared whole, the
\* time-of-day included.
doesTransactForDay_exact(self, dayTime) ==
    \/ (isinstance(self.when, "datetime") /\ self.when = dayTime)
    \/ (isinstance(self.when, "rrule")
          /\ \E k \in 1 .. Len(rruleList(self.when)) :
                rruleList(self.when)[k] = dayTime)

doesTransactForDay(self, dayTime) ==
    \/ (isinstance(self.when, "datetime") /\ date(self.when) = date(dayTime))
    \/ (isinstance(self.when, "rrule")
          /\ dateInRrule(date(dayTime), self.when, rruleFirst(self.when)))

getAmountForDay(self, dayTime) ==
    IF doesTransactForDay(self, dayTime) THEN self.amount.val ELSE 0

getFormattedName(self, dayTime) ==
    IF Truthy(dayTime) /\ ~doesTransactForDay(self, dayTime)
    THEN <<>>
    ELSE (IF Truthy(self.name) THEN self.name.val \o <<":", " ">> ELSE <<>>)
         \o (IF self.amount.val < 0 THEN <<"-">> ELSE <<>>)
         \o <<"$">>
         \o (IF self.amount.val < 0 THEN Tail(str(self.amount.val))
             ELSE str(self.amount.val))

\* ------------------------------------------------------ projectDiffs
\* A faulty variant of dayDiff: the last transaction of the list is left out.
dayDiff_skipLast(ts, day) ==
    sum([j \in 1 .. (Len(ts) - 1) |-> getAmountForDay(ts[j], day)])

\* One pass of the loop body for `day`: the diffs entry and the labels entry.
dayDiff(ts, day) ==
    sum([j \in 1 .. Len(ts) |-> getAmountForDay(ts[j], day)])

\* A faulty variant of dayLabel: the empty names are joined with the others.
dayLabel_unfiltered(ts, day) ==
    join(<<",">>, [j \in 1 .. Len(ts) |-> getFormattedName(ts[j], day)])

dayLabel(ts, day) ==
    join(<<",">>,
         SelectNonEmpty([j \in 1 .. Len(ts) |-> getFormattedName(ts[j], day)]))

\* ------------------------------------------------------------- state
VARIABLES
    pc,                 \* where the program is
    transactions,       \* the list of Transaction objects built so far
    fromDate, toDate,   \* projectDiffs' range
    dayRule,            \* the rule projectDiffs iterates
    day,                \* the iterator's next candidate
    days,               \* the values the loop variable `day` has taken
    diffs, labels,      \* projectDiffs' two lists
    self,               \* the Transaction under test, or None
    args,               \* the arguments of the last constructor call
    raised,             \* the exception the last call raised, or "none"
    query,              \* the last method called on self and its argument
    result,             \* what it returned
    startAmount, saveProportion,
    balances, saveBalances, currentBalance, currentSaveBalance,
    lowerLimitBalances, currentLowerLimit,
    pos                 \* the index the running loop of createBalanceGraph is at

projVars == <<transactions, fromDate, toDate, dayRule, day, days, labels>>
txVars == <<self, args, raised, query, result>>
graphVars == <<startAmount, saveProportion, balances, saveBalances,
               currentBalance, currentSaveBalance, lowerLimitBalances,
               currentLowerLimit, pos>>
vars == <<pc, diffs, projVars, txVars, graphVars>>

NoProj ==
    /\ transactions = <<>> /\ fromDate = None /\ toDate = None
    /\ dayRule = None /\ day = None /\ days = <<>> /\ labels = <<>>
NoTx ==
    /\ self = None /\ args = None /\ raised = "none"
    /\ query = None /\ result = None
NoGraph ==
    /\ startAmount = 0 /\ saveProportion = None
    /\ balances = <<>> /\ saveBalances = <<>>
    /\ currentBalance = None /\ currentSaveBalance = None
    /\ lowerLimitBalances = <<>> /\ currentLowerLimit = None /\ pos = 0

\* ------------------------------------ main(): transactions, projectDiffs
\* The constructor arguments main() and test() draw their transactions from.
ProjWhens ==
    { None, Midnight(0), rrule(Midnight(1), Midnight(2), 1),
      rrule(At(0, TicksPerSec), Midnight(MaxDay), 2) }
ProjAmountNames == { <<PyInt(20), None>>, <<PyInt(-20), Str(<<"W">>)>> }

Init ==
    /\ pc = "main"
    /\ diffs = <<>>
    /\ NoProj /\ NoTx /\ NoGraph

\* transactions = [..., Transaction(when, amount, name), ...]
Construct ==
    /\ pc = "main"
    /\ Len(transactions) < MaxTx
    /\ \E when \in ProjWhens, an \in ProjAmountNames :
          IF TransactionInitRaises(when, an[1], an[2]) = "none"
          THEN /\ transactions' = Append(transactions, Transaction(when, an[1], an[2]))
               /\ pc' = pc
          ELSE /\ pc' = "raised"
               /\ UNCHANGED transactions
    /\ UNCHANGED <<diffs, fromDate, toDate, dayRule, day, days, labels,
                   txVars, graphVars>>

\* projectDiffs(transactions, from, to), up to the loop's iterator.
CallProjectDiffs ==
    /\ pc = "main"
    /\ pc' = "projectDiffs"
    /\ \E from \in Datetimes, to \in Datetimes :
          /\ fromDate' = from /\ toDate' = to
          /\ dayRule' = rrule(from, to, 1)
          /\ day' = rruleFirst(rrule(from, to, 1))
    /\ diffs' = <<>> /\ labels' = <<>> /\ days' = <<>>
    /\ UNCHANGED <<transactions, txVars, graphVars>>

\* One pass of the loop body.
ProjectDay ==
    /\ pc = "projectDiffs"
    /\ rruleYields(dayRule, day)
    /\ diffs' = Append(diffs, dayDiff(transactions, day))
    /\ labels' = Append(labels, dayLabel(transactions, day))
    /\ days' = Append(days, day)
    /\ day' = rruleAdvance(dayRule, day)
    /\ UNCHANGED <<pc, transactions, fromDate, toDate, dayRule, txVars, graphVars>>

\* The iterator is exhausted: return (diffs, labels).
ProjectReturn ==
    /\ pc = "projectDiffs"
    /\ ~rruleYields(dayRule, day)
    /\ pc' = "returned"
    /\ UNCHANGED <<diffs, projVars, txVars, graphVars>>

Next ==
    \/ Construct
    \/ CallProjectDiffs
    \/ ProjectDay
    \/ ProjectReturn

Spec == Init /\ [][Next]_vars

\* ------------------------------------------ projectDiffs: properties
\* Whether transaction t fires on calendar date d, from its `when` alone.
FiresOn(t, d) ==
    IF t.when.type = "datetime" THEN date(t.when) = d
    ELSE \E k \in 0 .. d :
            /\ date(t.when.dtstart) + k * t.when.interval = d
            /\ t.when.dtstart.ts + k * t.when.interval * TicksPerDay <= t.when.until.ts

\* The indices of the transactions that fire on date d.
Firing(d) == { j \in 1 .. Len(transactions) : FiresOn(transactions[j], d) }

\* The sum of f over the finite set S, in no particular order.
RECURSIVE SumOver(_, _)
SumOver(S, f) ==
    IF S = {} THEN 0
    ELSE LET x == CHOOSE y \in S : TRUE IN f[x] + SumOver(S \ {x}, f)

\* The names of the transactions with index >= j that fire on date d, in
\* list order, a "," between neighbours.
RECURSIVE NamesFrom(_, _)
NamesFrom(j, d) ==
    IF j > Len(transactions) THEN <<>>
    ELSE IF j \notin Firing(d) THEN NamesFrom(j + 1, d)
    ELSE getFormattedName(transactions[j], None)
         \o (IF \E m \in Firing(d) : m > j THEN <<",">> ELSE <<>>)
         \o NamesFrom(j + 1, d)

\* The calendar days from fromDate to toDate inclusive; none when fromDate
\* is later than toDate.
NumberOfDaysInclusive ==
    IF fromDate.ts > toDate.ts THEN 0 ELSE date(toDate) - date(fromDate) + 1

\* C4: projectDiffs returns diffs and labels of equal length, one entry for
\* every calendar day from fromDate to toDate inclusive, in ascending order,
\* whatever the times of day of the two bounds; one entry when fromDate =
\* toDate, none when fromDate > toDate.
C4_OneEntryPerCalendarDay ==
    pc = "returned" =>
        /\ Len(diffs) = Len(labels)
        /\ Len(diffs) = NumberOfDaysInclusive
        /\ \A i \in 1 .. Len(days) : date(days[i]) = date(fromDate) + i - 1

\* C5: every diffs entry is the sum over the transaction list of
\* getAmountForDay for its day, each list position counted once: the amount
\* of a transaction that fires that day, 0 of one that does not; a
\* single-date +20 on day 0 and a recurring +20 on days 1 and 2, projected
\* over days 0..4, give (20, 20, 20, 0, 0).
C5_DiffIsSumOfAmounts ==
    /\ Len(diffs) = Len(days)
    /\ \A i \in 1 .. Len(diffs) :
          /\ diffs[i] =
                SumOver(1 .. Len(transactions),
                        [j \in 1 .. Len(transactions) |->
                            IF j \in Firing(date(days[i]))
                            THEN transactions[j].amount.val ELSE 0])
          /\ \A j \in 1 .. Len(transactions) :
                getAmountForDay(transactions[j], days[i]) =
                   (IF doesTransactForDay(transactions[j], days[i])
                    THEN transactions[j].amount.val ELSE 0)
    /\ (/\ pc = "returned"
        /\ transactions =
              << Transaction(Midnight(0), PyInt(20), None),
                 Transaction(rrule(Midnight(1), Midnight(2), 1), PyInt(20), None) >>
        /\ fromDate = Midnight(0)
        /\ toDate = Midnight(4))
       => diffs = <<20, 20, 20, 0, 0>>

\* The projection of test() has returned.
C5_Witness ==
    /\ pc = "returned"
    /\ transactions =
          << Transaction(Midnight(0), PyInt(20), None),
             Transaction(rrule(Midnight(1), Midnight(2), 1), PyInt(20), None) >>
    /\ fromDate = Midnight(0)
    /\ toDate = Midnight(4)
    /\ diffs = <<20, 20, 20, 0, 0>>

\* C8: every labels entry is the formatted names of the transactions that
\* fire on its day, in list order, joined with ","; a transaction that does
\* not fire adds nothing, and a day on which none fires has the empty label.
C8_LabelIsJoinedNames ==
    /\ Len(labels) = Len(days)
    /\ \A i \in 1 .. Len(labels) :
          /\ labels[i] = NamesFrom(1, date(days[i]))
          /\ (Firing(date(days[i])) = {} => labels[i] = <<>>)

\* Two transactions fired on one day, in list order, and none on another.
C8_Witness ==
    /\ pc = "returned"
    /\ \E i \in 1 .. Len(labels) :
          labels[i] = <<"W", ":", " ", "-", "$", "2", "0", ",", "$", "2", "0">>
    /\ \E i \in 1 .. Len(labels) : labels[i] = <<>>

\* --------------------------------------- test(): one Transaction, queried
Bool(b) == [type |-> "bool", val |-> b]

\* The constructor arguments tried: absent, of another type, a datetime, a rule.
TxWhens == { None, Str(<<"d">>), PyInt(1) } \cup Datetimes \cup Rrules
TxAmounts == { None, PyInt(-20), PyInt(0), PyInt(20) }
TxNames == { None, Str(<<>>), Str(<<"W">>) }

TxInit ==
    /\ pc = "test"
    /\ diffs = <<>>
    /\ NoProj /\ NoTx /\ NoGraph

\* t = Transaction(when, amount, name)
TxConstruct ==
    /\ pc = "test"
    /\ args = None
    /\ \E when \in TxWhens, amount \in TxAmounts, name \in TxNames :
          /\ args' = [when |-> when, amount |-> amount, name |-> name]
          /\ raised' = TransactionInitRaises(when, amount, name)
          /\ self' = IF TransactionInitRaises(when, amount, name) = "none"
                     THEN Transaction(when, amount, name)
                     ELSE None
    /\ UNCHANGED <<pc, diffs, query, result, projVars, graphVars>>

\* t.doesTransactForDay(dayTime).  The object is never mutated, so one call
\* on each constructed object reaches every answer it can give.
TxDoesTransactForDay ==
    /\ pc = "test"
    /\ self # None
    /\ query = None
    /\ \E dayTime \in Datetimes :
          /\ query' = [method |-> "doesTransactForDay", dayTime |-> dayTime]
          /\ result' = Bool(doesTransactForDay(self, dayTime))
    /\ UNCHANGED <<pc, diffs, self, args, raised, projVars, graphVars>>

\* t.getAmountForDay(dayTime)
TxGetAmountForDay ==
    /\ pc = "test"
    /\ self # None
    /\ query = None
    /\ \E dayTime \in Datetimes :
          /\ query' = [method |-> "getAmountForDay", dayTime |-> dayTime]
          /\ result' = PyInt(getAmountForDay(self, dayTime))
    /\ UNCHANGED <<pc, diffs, self, args, raised, projVars, graphVars>>

\* t.getFormattedName(dayTime), dayTime defaulting to None
TxGetFormattedName ==
    /\ pc = "test"
    /\ self # None
    /\ query = None
    /\ \E dayTime \in Datetimes \cup {None} :
          /\ query' = [method |-> "getFormattedName", dayTime |-> dayTime]
          /\ result' = Str(getFormattedName(self, dayTime))
    /\ UNCHANGED <<pc, diffs, self, args, raised, projVars, graphVars>>

TxNext ==
    \/ TxConstruct
    \/ TxDoesTransactForDay
    \/ TxGetAmountForDay
    \/ TxGetFormattedName

TxSpec == TxInit /\ [][TxNext]_vars

\* ------------------------------------------- Transaction: properties
\* The calendar dates a rule enumerates.
EnumeratedDates(r) == { date(rruleList(r)[k]) : k \in 1 .. Len(rruleList(r)) }

\* The same dates in closed form: the k-th occurrence is dtstart + k *
\* interval days, and is enumerated when it is not later than until.
OccursOn(r, d) ==
    \E k \in 0 .. d :
        /\ date(r.dtstart) + k * r.interval = d
        /\ r.dtstart.ts + k * r.interval * TicksPerDay <= r.until.ts

\* C6: doesTransactForDay(day) is true exactly when `when` is a single date
\* on day's calendar date, or a rule that enumerates day's calendar date,
\* whatever the times of day; a single date fires on exactly one calendar
\* day, and a rule on no day before its first or after its last date.
C6_DoesTransactIff ==
    (query # None /\ query.method = "doesTransactForDay") =>
        LET w == self.when
            d == date(query.dayTime)
        IN  /\ result.val <=>
                 \/ (w.type = "datetime" /\ date(w) = d)
                 \/ (w.type = "rrule" /\ d \in EnumeratedDates(w))
            /\ (w.type = "rrule" => (result.val <=> OccursOn(w, d)))
            /\ (w.type = "datetime" =>
                  \A t \in 0 .. (TicksPerDay - 1) :
                     Cardinality({ x \in Days : doesTransactForDay(self, At(x, t)) }) = 1)
            /\ (w.type = "rrule" /\ result.val =>
                  /\ rruleList(w) # <<>>
                  /\ date(rruleList(w)[1]) <= d
                  /\ d <= date(rruleList(w)[Len(rruleList(w))]))
            /\ (w.type = "rrule" /\ rruleList(w) # <<>>
                  /\ (d < date(rruleList(w)[1])
                        \/ d > date(rruleList(w)[Len(rruleList(w))]))
                  => ~result.val)

\* A rule of interval 2 was asked about a later date it enumerates, at
\* another time of day than its own, and answered true.
C6_Witness ==
    /\ query # None
    /\ query.method = "doesTransactForDay"
    /\ self.when.type = "rrule"
    /\ self.when.interval = 2
    /\ date(query.dayTime) > date(self.when.dtstart)
    /\ query.dayTime.ts % TicksPerDay # self.when.dtstart.ts % TicksPerDay
    /\ result.val

\* C7: the constructor raises, and leaves no Transaction, exactly when
\* `when` is absent, `amount` is absent, or `when` is neither a datetime nor
\* a rule; otherwise, an amount of 0 and an absent name included, the object
\* holds the when, amount and name it was given.
C7_ConstructorChecks ==
    args # None =>
        LET bad == \/ args.when = None
                   \/ args.amount = None
                   \/ args.when.type \notin {"datetime", "rrule"}
        IN  /\ bad => (raised # "none" /\ self = None)
            /\ ~bad => /\ raised = "none"
                       /\ self # None
                       /\ self.when = args.when
                       /\ self.amount = args.amount
                       /\ self.name = args.name

\* A Transaction of amount 0 and no name was constructed.
C7_Witness ==
    /\ args # None
    /\ args.amount = PyInt(0)
    /\ args.name = None
    /\ raised = "none"
    /\ self # None
    /\ self.amount = PyInt(0)

\* ------------------------------------------------- createBalanceGraph
\* Exact dyadic numbers num / den, den a power of two; 1 / 0 is +infinity.
Num(n, d) == [num |-> n, den |-> d]

RECURSIVE Reduce(_, _)
Reduce(n, d) == IF d > 1 /\ n % 2 = 0 THEN Reduce(n \div 2, d \div 2) ELSE Num(n, d)

numLess(a, b) ==
    IF a.den = 0 THEN FALSE
    ELSE IF b.den = 0 THEN TRUE
    ELSE a.num * b.den < b.num * a.den
numEq(a, b) == ~numLess(a, b) /\ ~numLess(b, a)
numLeq(a, b) == ~numLess(b, a)
numAdd(a, b) ==
    LET d == IF a.den > b.den THEN a.den ELSE b.den
    IN  Reduce(a.num * (d \div a.den) + b.num * (d \div b.den), d)
numNeg(a) == Num(-a.num, a.den)
numSub(a, b) == numAdd(a, numNeg(b))
numMul(a, b) == Reduce(a.num * b.num, a.den * b.den)

\* Python numbers: an int is exact and unbounded, a float is a dyadic number
\* of at most MantissaBits significant bits (sys.float_info.mant_dig).
PyFloat(n, d) == [type |-> "float", num |-> n, den |-> d]
Val(v) == IF v.type = "int" THEN Num(v.val, 1) ELSE Num(v.num, v.den)

RECURSIVE BitLen(_)
BitLen(n) == IF n = 0 THEN 0 ELSE 1 + BitLen(n \div 2)
RECURSIVE Pow2(_)
Pow2(k) == IF k = 0 THEN 1 ELSE 2 * Pow2(k - 1)

\* The float nearest to the exact number x, ties to the even mantissa.
roundToFloat(x) ==
    LET a == IF x.num < 0 THEN -x.num ELSE x.num
        sign == IF x.num < 0 THEN -1 ELSE 1
        len == BitLen(a)
    IN  IF len <= MantissaBits
        THEN LET e == Reduce(x.num, x.den) IN PyFloat(e.num, e.den)
        ELSE LET unit == Pow2(len - MantissaBits)
                 q == a \div unit
                 r == a % unit
                 up == (2 * r > unit) \/ (2 * r = unit /\ q % 2 = 1)
                 m == (IF up THEN q + 1 ELSE q) * unit
                 e == Reduce(sign * m, x.den)
             IN  PyFloat(e.num, e.den)

\* float(v)
toFloat(v) == IF v.type = "float" THEN v ELSE roundToFloat(Val(v))

\* a + b, a - b, a * b: exact on two ints, else the rounded float result.
pyAdd(a, b) ==
    IF a.type = "int" /\ b.type = "int" THEN PyInt(a.val + b.val)
    ELSE roundToFloat(numAdd(Val(toFloat(a)), Val(toFloat(b))))
pySub(a, b) ==
    IF a.type = "int" /\ b.type = "int" THEN PyInt(a.val - b.val)
    ELSE roundToFloat(numSub(Val(toFloat(a)), Val(toFloat(b))))
pyMul(a, b) ==
    IF a.type = "int" /\ b.type = "int" THEN PyInt(a.val * b.val)
    ELSE roundToFloat(numMul(Val(toFloat(a)), Val(toFloat(b))))

\* A faulty variant of floatInf: the running minimum starts at 0.
floatInf_zero == PyFloat(0, 1)
\* float("inf")
floatInf == PyFloat(1, 0)

\* min(a, b): b when it is the smaller of the two, else a.
pymin(a, b) == IF numLess(Val(b), Val(a)) THEN b ELSE a

\* A faulty variant of insert0: the value is appended, not prepended.
insert0_append(lst, x) == Append(lst, x)

\* lst.insert(0, x)
insert0(lst, x) == <<x>> \o lst

\* Faulty variants of saveStep: the proportion is withheld from outflows too; the
\* proportion itself is kept instead of its complement; it is added to 1.
saveStep_all(diff, proportion) ==
    pyMul(PyInt(diff), pySub(PyInt(1), proportion))
saveStep_noComplement(diff, proportion) ==
    IF diff < 0 THEN PyInt(diff) ELSE pyMul(PyInt(diff), proportion)
saveStep_plus(diff, proportion) ==
    IF diff < 0 THEN PyInt(diff)
    ELSE pyMul(PyInt(diff), pyAdd(PyInt(1), proportion))

\* diff if diff < 0 else (diff * (1-saveProportion))
saveStep(diff, proportion) ==
    IF diff < 0 THEN PyInt(diff)
    ELSE pyMul(PyInt(diff), pySub(PyInt(1), proportion))

\* The arguments createBalanceGraph is called with.
\* saveProportion: the ints 0 and 1, the floats 0.0, the one nearest 0.3, 0.5
\* and 1.0, and two proportions outside [0, 1], which the function does not
\* reject.
DiffValues == { -50, -10, -5, 0, 13, 50 }
StartAmounts == { 0, 100 }
SaveProportions ==
    { PyInt(0), PyInt(1), PyFloat(0, 1), PyFloat(307, 1024), PyFloat(1, 2),
      PyFloat(1, 1), PyFloat(3, 2), PyFloat(-1, 2) }
DiffLists == UNION { [1 .. n -> DiffValues] : n \in 0 .. MaxLen }

\* createBalanceGraph(diffs, ..., startAmount, saveProportion, ...) at its
\* first loop: the two lists empty, both running balances at startAmount.
GraphInit ==
    /\ pc = "forward"
    /\ diffs \in DiffLists
    /\ startAmount \in StartAmounts
    /\ saveProportion \in SaveProportions
    /\ balances = <<>> /\ saveBalances = <<>>
    /\ currentBalance = startAmount
    /\ currentSaveBalance = PyInt(startAmount)
    /\ lowerLimitBalances = <<>> /\ currentLowerLimit = None
    /\ pos = 1
    /\ NoProj /\ NoTx

\* One pass of "for diff in diffs".
ForwardStep ==
    /\ pc = "forward"
    /\ pos <= Len(diffs)
    /\ currentBalance' = currentBalance + diffs[pos]
    /\ balances' = Append(balances, currentBalance + diffs[pos])
    /\ currentSaveBalance' =
          pyAdd(currentSaveBalance, saveStep(diffs[pos], saveProportion))
    /\ saveBalances' =
          Append(saveBalances,
                 pyAdd(currentSaveBalance, saveStep(diffs[pos], saveProportion)))
    /\ pos' = pos + 1
    /\ UNCHANGED <<pc, diffs, startAmount, saveProportion, lowerLimitBalances,
                   currentLowerLimit, projVars, txVars>>

\* The forward loop is over: the backward one starts at the last index.
StartBackward ==
    /\ pc = "forward"
    /\ pos > Len(diffs)
    /\ pc' = "backward"
    /\ lowerLimitBalances' = <<>>
    /\ currentLowerLimit' = floatInf
    /\ pos' = Len(saveBalances)
    /\ UNCHANGED <<diffs, startAmount, saveProportion, balances, saveBalances,
                   currentBalance, currentSaveBalance, projVars, txVars>>

\* One pass of "for i, balance in reversed(list(enumerate(saveBalances)))".
BackwardStep ==
    /\ pc = "backward"
    /\ pos >= 1
    /\ currentLowerLimit' = pymin(saveBalances[pos], currentLowerLimit)
    /\ lowerLimitBalances' =
          insert0(lowerLimitBalances, pymin(saveBalances[pos], currentLowerLimit))
    /\ pos' = pos - 1
    /\ UNCHANGED <<pc, diffs, startAmount, saveProportion, balances, saveBalances,
                   currentBalance, currentSaveBalance, projVars, txVars>>

\* The backward loop is over: the three series go to the plot.
Plot ==
    /\ pc = "backward"
    /\ pos < 1
    /\ pc' = "plotted"
    /\ UNCHANGED <<diffs, projVars, txVars, graphVars>>

GraphNext ==
    \/ ForwardStep
    \/ StartBackward
    \/ BackwardStep
    \/ Plot

GraphSpec == GraphInit /\ [][GraphNext]_vars

\* ------------------------------------- createBalanceGraph: properties
\* x is the minimum of xs[i..Len(xs)], xs a list of exact numbers.
IsSuffixMin(x, xs, i) ==
    /\ \E j \in i .. Len(xs) : numEq(x, xs[j])
    /\ \A j \in i .. Len(xs) : numLeq(x, xs[j])

\* The exact values of a list of Python numbers.
Vals(xs) == [j \in 1 .. Len(xs) |-> Val(xs[j])]
FromInt(n) == Num(n, 1)

\* xs[1] + ... + xs[i]
RECURSIVE PrefixSum(_, _)
PrefixSum(xs, i) == IF i = 0 THEN 0 ELSE PrefixSum(xs, i - 1) + xs[i]

\* The save balance before index i.
SaveBefore(i) == IF i = 1 THEN PyInt(startAmount) ELSE saveBalances[i - 1]

\* What index i adds to the save balance, as Python evaluates it.
SaveTerm(i) ==
    IF diffs[i] < 0 THEN PyInt(diffs[i])
    ELSE pyMul(PyInt(diffs[i]), pySub(PyInt(1), saveProportion))

\* balance[i] - saveBalance[i], exactly.
Gap(i) == numSub(FromInt(balances[i]), Val(saveBalances[i]))

\* The addition that made saveBalance[i] was not rounded.
ExactStep(i) ==
    numEq(Val(saveBalances[i]), numAdd(Val(SaveBefore(i)), Val(SaveTerm(i))))

ProportionInUnitRange ==
    /\ numLeq(FromInt(0), Val(saveProportion))
    /\ numLeq(Val(saveProportion), FromInt(1))

\* C1: the backward pass leaves lowerLimit[i] = min(saveBalance[i..last]) at
\* every index it has filled; when it ends the result is as long as
\* saveBalance, and empty when saveBalance is empty.
C1_LowerLimitIsSuffixMin ==
    pc \in {"backward", "plotted"} =>
        /\ Len(lowerLimitBalances) = Len(saveBalances) - pos
        /\ \A k \in 1 .. Len(lowerLimitBalances) :
              IsSuffixMin(Val(lowerLimitBalances[k]), Vals(saveBalances), pos + k)
        /\ (pc = "plotted" =>
              /\ Len(lowerLimitBalances) = Len(saveBalances)
              /\ (saveBalances = <<>> => lowerLimitBalances = <<>>))

\* The pass has ended on three values whose minimum is the middle one.
C1_Witness ==
    /\ pc = "plotted"
    /\ Len(saveBalances) = 3
    /\ numLess(Val(saveBalances[2]), Val(saveBalances[1]))
    /\ numLess(Val(saveBalances[2]), Val(saveBalances[3]))
    /\ lowerLimitBalances[1] = saveBalances[2]
    /\ lowerLimitBalances[3] = saveBalances[3]

\* C2: after the backward pass on a non-empty saveBalance, lowerLimit never
\* decreases with the index, lowerLimit[i] <= saveBalance[i] at every i, and
\* lowerLimit[last] = saveBalance[last].
C2_LowerLimitMonotone ==
    (pc = "plotted" /\ saveBalances # <<>>) =>
        /\ \A i \in 1 .. (Len(lowerLimitBalances) - 1) :
              numLeq(Val(lowerLimitBalances[i]), Val(lowerLimitBalances[i + 1]))
        /\ \A i \in 1 .. Len(saveBalances) :
              numLeq(Val(lowerLimitBalances[i]), Val(saveBalances[i]))
        /\ numEq(Val(lowerLimitBalances[Len(saveBalances)]),
                 Val(saveBalances[Len(saveBalances)]))

\* The pass has ended with a lowerLimit that rises strictly and lies strictly
\* under saveBalance somewhere, the last saveBalance being positive.
C2_Witness ==
    /\ pc = "plotted"
    /\ Len(lowerLimitBalances) >= 2
    /\ \E i \in 1 .. (Len(lowerLimitBalances) - 1) :
          numLess(Val(lowerLimitBalances[i]), Val(lowerLimitBalances[i + 1]))
    /\ \E i \in 1 .. Len(saveBalances) :
          numLess(Val(lowerLimitBalances[i]), Val(saveBalances[i]))
    /\ numLess(FromInt(0), Val(saveBalances[Len(saveBalances)]))

\* C3: the forward pass fills balance and saveBalance in step, one entry per
\* diff; balance[i] = startAmount + diffs[1] + ... + diffs[i], and
\* saveBalance[i] = saveBalance[i-1] + (diffs[i] if diffs[i] < 0 else
\* diffs[i] * (1 - saveProportion)) in Python's arithmetic, with
\* saveBalance[0] = startAmount; startAmount 100, diffs (-10, 50, -5),
\* saveProportion 0.5 give balance (90, 140, 135), saveBalance
\* (90, 115, 110) and lowerLimit (90, 110, 110).
C3_ForwardPass ==
    /\ Len(balances) = Len(saveBalances)
    /\ (pc = "forward" => Len(balances) = pos - 1)
    /\ (pc \in {"backward", "plotted"} => Len(balances) = Len(diffs))
    /\ \A i \in 1 .. Len(balances) :
          /\ balances[i] = startAmount + PrefixSum(diffs, i)
          /\ numEq(Val(saveBalances[i]), Val(pyAdd(SaveBefore(i), SaveTerm(i))))
    /\ (/\ pc = "plotted"
        /\ startAmount = 100
        /\ diffs = <<-10, 50, -5>>
        /\ numEq(Val(saveProportion), Num(1, 2)))
       => /\ balances = <<90, 140, 135>>
          /\ Len(saveBalances) = 3
          /\ numEq(Val(saveBalances[1]), FromInt(90))
          /\ numEq(Val(saveBalances[2]), FromInt(115))
          /\ numEq(Val(saveBalances[3]), FromInt(110))
          /\ Len(lowerLimitBalances) = 3
          /\ numEq(Val(lowerLimitBalances[1]), FromInt(90))
          /\ numEq(Val(lowerLimitBalances[2]), FromInt(110))
          /\ numEq(Val(lowerLimitBalances[3]), FromInt(110))

\* The worked example has run to its end.
C3_Witness ==
    /\ pc = "plotted"
    /\ startAmount = 100
    /\ diffs = <<-10, 50, -5>>
    /\ numEq(Val(saveProportion), Num(1, 2))
    /\ balances = <<90, 140, 135>>
    /\ saveBalances[2] = PyFloat(115, 1)

C10_Original ==
    ProportionInUnitRange =>
        /\ \A i \in 1 .. Len(saveBalances) :
              numLeq(Val(saveBalances[i]), FromInt(balances[i]))
        /\ (pc = "plotted" =>
              \A i \in 1 .. Len(saveBalances) :
                 /\ numLeq(Val(lowerLimitBalances[i]), Val(saveBalances[i]))
                 /\ numLeq(Val(lowerLimitBalances[i]), FromInt(balances[i])))
        /\ \A i \in 1 .. (Len(saveBalances) - 1) : numLeq(Gap(i), Gap(i + 1))

\* C10 as amended: with 0 <= saveProportion <= 1, saveBalance[i] <=
\* balance[i] after every step of the forward pass, lowerLimit[i] <=
\* saveBalance[i] <= balance[i] once the backward pass has ended, and
\* balance[i] - saveBalance[i] does not decrease from i to i+1 when the
\* floating-point addition that made saveBalance[i+1] was exact.
C10_SaveBelowBalance ==
    ProportionInUnitRange =>
        /\ \A i \in 1 .. Len(saveBalances) :
              numLeq(Val(saveBalances[i]), FromInt(balances[i]))
        /\ (pc = "plotted" =>
              \A i \in 1 .. Len(saveBalances) :
                 /\ numLeq(Val(lowerLimitBalances[i]), Val(saveBalances[i]))
                 /\ numLeq(Val(lowerLimitBalances[i]), FromInt(balances[i])))
        /\ \A i \in 1 .. (Len(saveBalances) - 1) :
              ExactStep(i + 1) => numLeq(Gap(i), Gap(i + 1))

\* A proportion strictly inside (0, 1) has run to the end over an inflow
\* added exactly, where the gap grows, and a later outflow added exactly,
\* where it stays.
C10_Witness ==
    /\ pc = "plotted"
    /\ numLess(FromInt(0), Val(saveProportion))
    /\ numLess(Val(saveProportion), FromInt(1))
    /\ \E i \in 1 .. (Len(saveBalances) - 1) :
          /\ ExactStep(i + 1)
          /\ diffs[i + 1] > 0
          /\ numLess(Gap(i), Gap(i + 1))
    /\ \E i \in 1 .. (Len(saveBalances) - 1) :
          /\ ExactStep(i + 1)
          /\ diffs[i + 1] < 0
          /\ numEq(Gap(i), Gap(i + 1))
          /\ numLess(FromInt(0), Gap(i))

====
